---------------------------- MODULE Spec2Model ----------------------------
(***************************************************************************)
(* traktorbox: rekordbox export.pdb -> Traktor NML.                        *)
(*                                                                         *)
(* Four parts of the program are modelled:                                 *)
(*   - export_to_traktor (export_to_traktor.py): the symlink allocation    *)
(*     loop, the loop over the playlists with its ancestor walk, and the   *)
(*     NML document written per non-folder playlist;                       *)
(*   - parse_export_pdb (parse_export_pdb.py): the table pointers, the     *)
(*     page walk of each table and the rows stored into the ExportDB maps; *)
(*   - Track.from_bytes and string_from_bytes: the strings of a track row; *)
(*   - parse_anlz_file: the walk over the tagged sections.                 *)
(*                                                                         *)
(* Strings are sequences of one-character strings, so that concatenation,  *)
(* str.replace and the decimal formatting of a counter are computed as the *)
(* code computes them.                                                     *)
(***************************************************************************)
EXTENDS Integers, Sequences, FiniteSets, TLC

VARIABLES
    \* ---- export_to_traktor
    usb_volume,        \* os.path.basename(usb_path)
    tracks,            \* export_db.tracks, in dict (insertion) order; key = index
    playlists,         \* export_db.playlists, in dict order; key = index
    playlist_entries,  \* export_db.playlist_entries (flat list)
    orig_tracks,       \* the tracks as decoded, before any rename (history)
    symlinks,          \* symlinks created under TRAKTOR/, in creation order
    written,           \* tree.write calls so far: [playlist, path, nml]
    pc,                \* position in export_to_traktor
    track_idx,         \* the track of the symlink loop
    unique_counter,    \* line 42
    pl_idx,            \* the playlist of the playlist loop
    parent_folders,    \* line 63
    parent_id,         \* line 64
    walk_steps,        \* iterations of the ancestor loop for this playlist
    error,             \* the exception that ended the run, or "none"
    \* ---- parse_export_pdb
    pdb_tables,        \* the table pointers of the file: table_type, first_page, last_page
    pdb_pages,         \* the pages of the file, by page index (page 0 holds the header)
    table_pointers,    \* line 469
    export_db,         \* the maps of ExportDB that hold a name per id
    p_pc,              \* position in parse_export_pdb
    table_num,         \* the table of the pointer loop, then of the page loop
    page_idx,          \* line 482
    p_error,           \* the exception that ended the parse, or "none"
    \* ---- Track.from_bytes
    page_data,         \* the bytes from the row's start on (row_offset is 0)
    string_offsets,    \* line 285: the 21 offsets of the row
    str_idx,           \* i of the loop of line 298
    track_strings,     \* the string attributes of the Track t
    t_pc,              \* position in Track.from_bytes
    t_error,           \* the exception that ended the decoding, or "none"
    \* ---- parse_anlz_file
    anlz_code,         \* the envelope's magic
    anlz_len_file,     \* the envelope's len_file
    anlz_data_len,     \* len(data)
    anlz_sections,     \* the section header that stands at each offset of data
    offset_tagged_section,  \* line 403
    a_pc,              \* position in parse_anlz_file
    a_error            \* the exception that ended parse_anlz_file, or "none"

export_vars == <<usb_volume, tracks, playlists, playlist_entries, orig_tracks,
                 symlinks, written, pc, track_idx, unique_counter, pl_idx,
                 parent_folders, parent_id, walk_steps, error>>

parse_vars == <<pdb_tables, pdb_pages, table_pointers, export_db, p_pc, table_num,
                page_idx, p_error>>

row_vars == <<page_data, string_offsets, str_idx, track_strings, t_pc, t_error>>

anlz_vars == <<anlz_code, anlz_len_file, anlz_data_len, anlz_sections,
               offset_tagged_section, a_pc, a_error>>

vars == <<export_vars, parse_vars, row_vars, anlz_vars>>

-----------------------------------------------------------------------------
(* Bounds of the model *)

MaxTracks == 3

MaxPlaylists == 3

MaxWalk == 4

MaxEntries == 2

MaxCuePoints == 9

MaxPages == 3

MaxTables == 2

MaxRows == 2

MaxRowBytes == 3

MaxSections == 2

(* Program constants *)

FirstUniqueCounter == 2

MaxMemoryCues == 8

-----------------------------------------------------------------------------
(* Strings *)

DigitChar == <<"0", "1", "2", "3", "4", "5", "6", "7", "8", "9">>

RECURSIVE IntToStr(_)
\* str(n) of a non-negative int, as the f-string of line 45 formats the counter
IntToStr(n) ==
    IF n < 10 THEN <<DigitChar[n + 1]>>
    ELSE IntToStr(n \div 10) \o <<DigitChar[(n % 10) + 1]>>

\* str.replace(old, new) for one-character old and new (line 74)
Replace(s, old, new) == [i \in 1..Len(s) |-> IF s[i] = old THEN new ELSE s[i]]

TRAKTOR_PATH_ID == <<"T", "R", "A", "K", "T", "O", "R">>


-----------------------------------------------------------------------------
(* The decoded library: records of parse_export_pdb.py *)

\* CueType (parse_export_pdb.py, 172-174)
CueTypes == {"MEMORY", "HOT"}

\* Beat: num, time_in_ms (tempo is not read by the exporter's cue code)
Beat(num, time) == [num |-> num, time_in_ms |-> time]

\* Cue: cue_type, is_loop, time_in_ms
Cue(type, loop, time) == [cue_type |-> type, is_loop |-> loop, time_in_ms |-> time]

Analysis(grid, cues) == [beat_grid |-> grid, cue_points |-> cues]

Track(name, path, analysis) ==
    [file_name |-> name, file_path |-> path, analysis |-> analysis]

Playlist(parent, folder, name) ==
    [parent_id |-> parent, raw_is_folder |-> folder, name |-> name]

PlaylistEntry(index, track, playlist) ==
    [entry_index |-> index, track_id |-> track, playlist_id |-> playlist]

-----------------------------------------------------------------------------
(* export_to_traktor: helpers *)

\* no name is ever found taken
NoLink(name) == FALSE

\* os.path.islink(os.path.join(traktor_path, name)): TRAKTOR/ is created empty
\* (lines 33-35) and holds only what this run put there
IsLink(name) == \E i \in DOMAIN symlinks : symlinks[i].name = name

\* line 45: f"{unique_counter}-{track.file_name}"
RenamedFileName(counter, name) == IntToStr(counter) \o <<"-">> \o name

\* line 49: f"../{track.file_path}"
SymlinkTarget(track) == <<".", ".", "/">> \o track.file_path

\* the folder name put behind the names collected so far
AppendFolder(name, folders) == folders \o name \o <<"_">>

\* line 70: f"{parent.name}_{parent_folders}"
PrependFolder(name, folders) == name \o <<"_">> \o folders

\* lines 74-75: f"{parent_folders}{playlist.name}".replace("/", "_") + ".nml"
PlaylistFileName(folders, name) ==
    Replace(folders \o name, "/", "_") \o <<".", "n", "m", "l">>

\* line 169: f"{usb_volume}/:{TRAKTOR_PATH_ID}/:{track.file_name}"
PrimaryKey(volume, name) ==
    volume \o <<"/", ":">> \o TRAKTOR_PATH_ID \o <<"/", ":">> \o name

\* sorted(..., key=entry_index) is stable: an element goes behind the equal ones
InsertByIndex(sorted, e) ==
    LET p == Cardinality({j \in DOMAIN sorted : sorted[j].entry_index <= e.entry_index})
    IN  SubSeq(sorted, 1, p) \o <<e>> \o SubSeq(sorted, p + 1, Len(sorted))

RECURSIVE SortedByIndex(_)
SortedByIndex(s) ==
    IF s = <<>> THEN <<>>
    ELSE InsertByIndex(SortedByIndex(SubSeq(s, 1, Len(s) - 1)), s[Len(s)])

\* lines 83-84 without the sort: the playlist's entries in list order
EntriesOfUnsorted(id) == SelectSeq(playlist_entries, LAMBDA e : e.playlist_id = id)

\* lines 83-84: the entries of one playlist, in entry_index order
EntriesOf(id) ==
    SortedByIndex(SelectSeq(playlist_entries, LAMBDA e : e.playlist_id = id))

InsertByTime(sorted, c) ==
    LET p == Cardinality({j \in DOMAIN sorted : sorted[j].time_in_ms <= c.time_in_ms})
    IN  SubSeq(sorted, 1, p) \o <<c>> \o SubSeq(sorted, p + 1, Len(sorted))

RECURSIVE SortedByTime(_)
SortedByTime(s) ==
    IF s = <<>> THEN <<>>
    ELSE InsertByTime(SortedByTime(SubSeq(s, 1, Len(s) - 1)), s[Len(s)])

\* line 136
NonHotCues(cues) == SelectSeq(cues, LAMBDA cp : cp.cue_type # "HOT")

\* lines 138-141
CapCues(cues) ==
    IF Len(cues) > MaxMemoryCues THEN SubSeq(cues, 1, MaxMemoryCues) ELSE cues

\* the cap taken before the sort: the first eight in file order
SelectedCuesCapFirst(track) ==
    SortedByTime(CapCues(NonHotCues(track.analysis.cue_points)))

\* lines 136-141: the cues the loop of line 143 enumerates
SelectedCues(track) == CapCues(SortedByTime(NonHotCues(track.analysis.cue_points)))

\* lines 143-151: one CUE_V2 per enumerated cue that is not HOT, HOTCUE = i
MemoryCueElements(track) ==
    LET cues == SelectedCues(track)
        elem(i) == [NAME |-> "n.n.", TYPE |-> IF cues[i].is_loop THEN "5" ELSE "0",
                    START |-> cues[i].time_in_ms, HOTCUE |-> i - 1]
        kept == SelectSeq([i \in 1..Len(cues) |-> i],
                          LAMBDA i : cues[i].cue_type # "HOT")
    IN  [k \in 1..Len(kept) |-> elem(kept[k])]

\* line 127: is there a beat with num == 1
HasGridStart(track) ==
    \E i \in DOMAIN track.analysis.beat_grid : track.analysis.beat_grid[i].num = 1

\* line 127: next(...) yields the first such beat
GridStart(track) ==
    LET grid == track.analysis.beat_grid
        first == CHOOSE i \in DOMAIN grid :
                    /\ grid[i].num = 1
                    /\ \A j \in 1..(i - 1) : grid[j].num # 1
    IN  grid[first]

\* lines 128-130
AutoGridElement(track) ==
    [NAME |-> "AutoGrid", TYPE |-> "4", START |-> GridStart(track).time_in_ms,
     HOTCUE |-> -1]

\* the ENTRY with the file name the track was decoded with, as an emitter would
\* write it that reads the names from before the symlink loop
CollectionEntryOriginalName(track) ==
    LET t == CHOOSE i \in DOMAIN orig_tracks : orig_tracks[i].file_path = track.file_path
    IN  [FILE |-> orig_tracks[t].file_name, VOLUME |-> usb_volume,
         CUE_V2 |-> <<AutoGridElement(track)>> \o MemoryCueElements(track)]

\* lines 92-151: the ENTRY of one track (the attributes the claims read)
CollectionEntry(track) ==
    [FILE |-> track.file_name, VOLUME |-> usb_volume,
     CUE_V2 |-> <<AutoGridElement(track)>> \o MemoryCueElements(track)]

RECURSIVE EntryFailure(_, _)
\* lines 89-151: the exception the first failing entry raises, "none" if none:
\* tracks[pl_entry.track_id] (line 90), next(...) of an exhausted generator (127)
EntryFailure(entries, i) ==
    IF i > Len(entries) THEN "none"
    ELSE IF entries[i].track_id \notin DOMAIN tracks THEN "KeyError"
    ELSE IF ~HasGridStart(tracks[entries[i].track_id]) THEN "StopIteration"
    ELSE EntryFailure(entries, i + 1)

\* lines 80-173: the document of one playlist
Nml(playlist, entries) ==
    [COLLECTION_ENTRIES |-> Len(entries),
     COLLECTION |-> [i \in 1..Len(entries) |-> CollectionEntry(tracks[entries[i].track_id])],
     NAME |-> playlist.name,
     PLAYLIST_ENTRIES |-> Len(entries),
     PLAYLIST |-> [i \in 1..Len(entries) |->
                     PrimaryKey(usb_volume, tracks[entries[i].track_id].file_name)]]

-----------------------------------------------------------------------------
(* export_to_traktor: the steps *)

\* the position after the playlist loop has handled playlist i (line 56)
AfterPlaylist(i) == IF i >= Len(playlists) THEN "done" ELSE "playlists"

\* the position once the symlink loop has handled track i (line 39)
AfterTrack(i) ==
    IF i < Len(tracks) THEN "symlinks" ELSE AfterPlaylist(0)

\* lines 43-47: the name is taken, one iteration of the while loop
RenameTrack ==
    /\ pc = "symlinks"
    /\ IsLink(tracks[track_idx].file_name)
    /\ tracks' = [tracks EXCEPT ![track_idx].file_name =
                      RenamedFileName(unique_counter, @)]
    /\ unique_counter' = unique_counter + 1
    /\ UNCHANGED <<parse_vars, row_vars, anlz_vars>>
    /\ UNCHANGED <<usb_volume, playlists, playlist_entries, orig_tracks, symlinks,
                   written, pc, track_idx, pl_idx, parent_folders, parent_id,
                   walk_steps, error>>

\* lines 43, 49, then 39-42 for the next track: the name is free
CreateSymlink ==
    /\ pc = "symlinks"
    /\ ~IsLink(tracks[track_idx].file_name)
    /\ symlinks' = Append(symlinks, [name |-> tracks[track_idx].file_name,
                                     target |-> SymlinkTarget(tracks[track_idx])])
    /\ pc' = AfterTrack(track_idx)
    /\ track_idx' = track_idx + 1
    /\ unique_counter' = FirstUniqueCounter
    /\ UNCHANGED <<parse_vars, row_vars, anlz_vars>>
    /\ UNCHANGED <<usb_volume, tracks, playlists, playlist_entries, orig_tracks,
                   written, pl_idx, parent_folders, parent_id, walk_steps, error>>

\* lines 60-61
SkipFolder ==
    /\ pc = "playlists"
    /\ playlists[pl_idx].raw_is_folder # 0
    /\ pc' = AfterPlaylist(pl_idx)
    /\ pl_idx' = pl_idx + 1
    /\ UNCHANGED <<parse_vars, row_vars, anlz_vars>>
    /\ UNCHANGED <<usb_volume, tracks, playlists, playlist_entries, orig_tracks,
                   symlinks, written, track_idx, unique_counter, parent_folders,
                   parent_id, walk_steps, error>>

\* lines 60, 63-64
StartPlaylist ==
    /\ pc = "playlists"
    /\ playlists[pl_idx].raw_is_folder = 0
    /\ parent_folders' = <<>>
    /\ parent_id' = playlists[pl_idx].parent_id
    /\ walk_steps' = 0
    /\ pc' = "walk"
    /\ UNCHANGED <<parse_vars, row_vars, anlz_vars>>
    /\ UNCHANGED <<usb_volume, tracks, playlists, playlist_entries, orig_tracks,
                   symlinks, written, track_idx, unique_counter, pl_idx, error>>

\* lines 65-71: one iteration of the ancestor loop
WalkParent ==
    /\ pc = "walk"
    /\ parent_id # 0
    /\ parent_id \in DOMAIN playlists
    /\ playlists[parent_id].raw_is_folder # 0
    /\ walk_steps < MaxWalk
    /\ parent_folders' = PrependFolder(playlists[parent_id].name, parent_folders)
    /\ parent_id' = playlists[parent_id].parent_id
    /\ walk_steps' = walk_steps + 1
    /\ UNCHANGED <<parse_vars, row_vars, anlz_vars>>
    /\ UNCHANGED <<usb_volume, tracks, playlists, playlist_entries, orig_tracks,
                   symlinks, written, pc, track_idx, unique_counter, pl_idx, error>>

\* line 67: export_db.playlists[parent_id] of a missing id
WalkFailsKeyError ==
    /\ pc = "walk"
    /\ parent_id # 0
    /\ parent_id \notin DOMAIN playlists
    /\ pc' = "failed"
    /\ error' = "KeyError: playlists"
    /\ UNCHANGED <<parse_vars, row_vars, anlz_vars>>
    /\ UNCHANGED <<usb_volume, tracks, playlists, playlist_entries, orig_tracks,
                   symlinks, written, track_idx, unique_counter, pl_idx,
                   parent_folders, parent_id, walk_steps>>

\* line 68: assert parent.raw_is_folder
WalkFailsAssert ==
    /\ pc = "walk"
    /\ parent_id # 0
    /\ parent_id \in DOMAIN playlists
    /\ playlists[parent_id].raw_is_folder = 0
    /\ pc' = "failed"
    /\ error' = "AssertionError"
    /\ UNCHANGED <<parse_vars, row_vars, anlz_vars>>
    /\ UNCHANGED <<usb_volume, tracks, playlists, playlist_entries, orig_tracks,
                   symlinks, written, track_idx, unique_counter, pl_idx,
                   parent_folders, parent_id, walk_steps>>

\* lines 65, 74-177: the ancestor loop is over, the document is built and written
EmitPlaylist ==
    /\ pc = "walk"
    /\ parent_id = 0
    /\ LET entries == EntriesOf(pl_idx)
       IN  /\ EntryFailure(entries, 1) = "none"
           /\ written' = Append(written,
                  [playlist |-> pl_idx,
                   path |-> PlaylistFileName(parent_folders, playlists[pl_idx].name),
                   entries |-> entries,
                   nml |-> Nml(playlists[pl_idx], entries)])
    /\ pc' = AfterPlaylist(pl_idx)
    /\ pl_idx' = pl_idx + 1
    /\ parent_folders' = <<>>
    /\ walk_steps' = 0
    /\ UNCHANGED <<parse_vars, row_vars, anlz_vars>>
    /\ UNCHANGED <<usb_volume, tracks, playlists, playlist_entries, orig_tracks,
                   symlinks, track_idx, unique_counter, parent_id, error>>

\* line 90: export_db.tracks[pl_entry.track_id] of a missing id
EmitFailsKeyError ==
    /\ pc = "walk"
    /\ parent_id = 0
    /\ EntryFailure(EntriesOf(pl_idx), 1) = "KeyError"
    /\ pc' = "failed"
    /\ error' = "KeyError: tracks"
    /\ UNCHANGED <<parse_vars, row_vars, anlz_vars>>
    /\ UNCHANGED <<usb_volume, tracks, playlists, playlist_entries, orig_tracks,
                   symlinks, written, track_idx, unique_counter, pl_idx,
                   parent_folders, parent_id, walk_steps>>

\* line 127: next(...) finds no beat with num == 1
EmitFailsStopIteration ==
    /\ pc = "walk"
    /\ parent_id = 0
    /\ EntryFailure(EntriesOf(pl_idx), 1) = "StopIteration"
    /\ pc' = "failed"
    /\ error' = "StopIteration"
    /\ UNCHANGED <<parse_vars, row_vars, anlz_vars>>
    /\ UNCHANGED <<usb_volume, tracks, playlists, playlist_entries, orig_tracks,
                   symlinks, written, track_idx, unique_counter, pl_idx,
                   parent_folders, parent_id, walk_steps>>

Next ==
    \/ RenameTrack
    \/ CreateSymlink
    \/ SkipFolder
    \/ StartPlaylist
    \/ WalkParent
    \/ WalkFailsKeyError
    \/ WalkFailsAssert
    \/ EmitPlaylist
    \/ EmitFailsKeyError
    \/ EmitFailsStopIteration

-----------------------------------------------------------------------------
(* The libraries the runs start from *)

Library(t, p, e) == [tracks |-> t, playlists |-> p, playlist_entries |-> e]

SeqsUpTo(S, n) == UNION {[1..k -> S] : k \in 0..n}

UsbVolumes == {<<"U", "S", "B">>}

FileNames == {<<"k">>, <<"2", "-", "k">>}

\* every track has a path of its own
FilePath(i) == <<"c", "/">> \o IntToStr(i)

\* a beat grid that starts on beat 4 of a bar; its first num == 1 beat is at 7 ms
GridWithStart == <<Beat(4, 5), Beat(1, 7), Beat(2, 8), Beat(1, 9)>>

GridWithoutStart == <<Beat(3, 5), Beat(4, 6)>>

SomeCues == <<Cue("MEMORY", FALSE, 20), Cue("HOT", FALSE, 5), Cue("MEMORY", TRUE, 10)>>

\* folder F holding playlist P, and the root playlist Q
GoodTree == <<Playlist(0, 1, <<"F">>), Playlist(1, 0, <<"P">>), Playlist(0, 0, <<"Q">>)>>

\* Q's parent is the playlist P, not a folder
NonFolderParentTree ==
    <<Playlist(0, 1, <<"F">>), Playlist(1, 0, <<"P">>), Playlist(2, 0, <<"Q">>)>>

\* Q's parent is not in the table
MissingParentTree ==
    <<Playlist(0, 1, <<"F">>), Playlist(1, 0, <<"P">>), Playlist(9, 0, <<"Q">>)>>

\* the non-folder playlists of a tree
NonFolders(tree) == {i \in DOMAIN tree : tree[i].raw_is_folder = 0}

\* n tracks named by names; track bad (0: none) has the beat grid badGrid
TracksOf(n, names, bad, badGrid) ==
    [i \in 1..n |-> Track(names[i], FilePath(i),
                          Analysis(IF i = bad THEN badGrid ELSE GridWithStart, SomeCues))]

\* entries numbered in list order, for (track_id, playlist_id) pairs
EntriesOfPairs(pairs) ==
    [j \in 1..Len(pairs) |-> PlaylistEntry(j, pairs[j][1], pairs[j][2])]

\* A few libraries that between them reach every step of the export
LibCore ==
    LET two == TracksOf(2, <<<<"k">>, <<"k">>>>, 0, <<>>)
    IN  { Library(two, GoodTree, EntriesOfPairs(<<<<1, 2>>, <<2, 3>>>>)),
          Library(two, GoodTree, EntriesOfPairs(<<<<1, 2>>, <<7, 3>>>>)),
          Library(TracksOf(2, <<<<"k">>, <<"k">>>>, 2, <<>>), GoodTree,
                  EntriesOfPairs(<<<<2, 2>>>>)),
          Library(two, NonFolderParentTree, EntriesOfPairs(<<<<1, 2>>>>)),
          Library(two, MissingParentTree, EntriesOfPairs(<<<<1, 2>>>>)) }

\* the export runs on a library given as decoded: the file is not looked at
ParseNotModelled ==
    /\ pdb_tables = <<>>
    /\ pdb_pages = <<>>
    /\ table_pointers = <<>>
    /\ export_db = <<>>
    /\ p_pc = "done"
    /\ table_num = 1
    /\ page_idx = 0
    /\ p_error = "none"

\* no track row is being decoded
RowNotModelled ==
    /\ page_data = <<>>
    /\ string_offsets = <<>>
    /\ str_idx = 1
    /\ track_strings = <<>>
    /\ t_pc = "done"
    /\ t_error = "none"

\* no analysis file is being parsed
AnlzNotModelled ==
    /\ anlz_code = "PMAI"
    /\ anlz_len_file = 0
    /\ anlz_data_len = 0
    /\ anlz_sections = <<>>
    /\ offset_tagged_section = 0
    /\ a_pc = "done"
    /\ a_error = "none"

\* the state export_to_traktor starts in, given the decoded library
InitExport(lib) ==
    /\ usb_volume \in UsbVolumes
    /\ tracks = lib.tracks
    /\ orig_tracks = lib.tracks
    /\ playlists = lib.playlists
    /\ playlist_entries = lib.playlist_entries
    /\ symlinks = <<>>
    /\ written = <<>>
    /\ pc = IF lib.tracks # <<>> THEN "symlinks"
            ELSE IF lib.playlists # <<>> THEN "playlists" ELSE "done"
    /\ track_idx = 1
    /\ unique_counter = FirstUniqueCounter
    /\ pl_idx = 1
    /\ parent_folders = <<>>
    /\ parent_id = 0
    /\ walk_steps = 0
    /\ error = "none"
    /\ ParseNotModelled
    /\ RowNotModelled
    /\ AnlzNotModelled

InitCore == \E lib \in LibCore : InitExport(lib)

\* Up to MaxTracks tracks under colliding names, at most one of them without a
\* grid start, and up to MaxEntries entries that may name a missing track
InitTracks ==
    \E n \in 1..MaxTracks :
      \E names \in [1..n -> FileNames], bad \in 0..n :
        \E pairs \in SeqsUpTo((1..(n + 1)) \X NonFolders(GoodTree), MaxEntries) :
          InitExport(Library(TracksOf(n, names, bad, GridWithoutStart), GoodTree,
                             EntriesOfPairs(pairs)))

Init == InitTracks \/ InitCore

FolderNames == {<<"A">>, <<"A", "/", "B">>}

PlaylistNames == {<<"B">>, <<"A", "/", "B">>}

\* one decoded playlist row: a folder or a playlist, under any parent of the table
PlaylistRows(n) ==
    {Playlist(parent, 1, name) : parent \in 0..n, name \in FolderNames}
    \cup {Playlist(parent, 0, name) : parent \in 0..n, name \in PlaylistNames}

\* no two rows under the same parent share a name
SiblingsDistinct(tree) ==
    \A i, j \in DOMAIN tree :
        (i # j /\ tree[i].parent_id = tree[j].parent_id) => tree[i].name # tree[j].name

OneTrack == TracksOf(1, <<<<"k">>>>, 0, <<>>)

\* Up to MaxPlaylists playlists and folders in any parent relation (cycles
\* included), names with '/', one track, one entry in the first playlist
InitTrees ==
    \E n \in 1..MaxPlaylists :
      \E tree \in [1..n -> PlaylistRows(n)] :
        /\ SiblingsDistinct(tree)
        /\ InitExport(Library(OneTrack, tree, EntriesOfPairs(<<<<1, 1>>>>)))

InitPlaylists == InitTrees \/ InitCore

\* the cues of an analysis file: memory cues at two times, and a hot cue
CueValues == {Cue("MEMORY", FALSE, 1), Cue("MEMORY", FALSE, 2), Cue("HOT", TRUE, 1)}

\* One track with up to MaxCuePoints cues in any order, in one root playlist
InitCuePoints ==
    \E n \in 0..MaxCuePoints :
      \E cues \in [1..n -> CueValues] :
        InitExport(Library(<<Track(<<"k">>, FilePath(1), Analysis(GridWithStart, cues))>>,
                           <<Playlist(0, 0, <<"B">>)>>,
                           EntriesOfPairs(<<<<1, 1>>>>)))

InitCues == InitCuePoints \/ InitCore

Spec == Init /\ [][Next]_vars

SpecPlaylists == InitPlaylists /\ [][Next]_vars

SpecCues == InitCues /\ [][Next]_vars

-----------------------------------------------------------------------------
(* Claims about the symlink loop and the emitted documents *)

\* the n-prefixed form of a name the spec describes: "{n}-{original file_name}"
PrefixedName(n, original) == IntToStr(n) \o <<"-">> \o original

\* C1: every created symlink keeps the track's original file_name when no
\* earlier symlink has that name, and otherwise is named "{n}-{original}" for
\* the smallest n >= 2 whose name no earlier symlink has; the track's
\* file_name is that final name.
C1_SymlinkDisambiguation ==
    \A i \in DOMAIN symlinks :
        LET original == orig_tracks[i].file_name
            present(nm) == \E j \in 1..(i - 1) : symlinks[j].name = nm
            free(n) == ~present(PrefixedName(n, original))
            \* i - 1 names are present, so one of 2..(i + 1) is free
            n == CHOOSE k \in 2..(i + 1) : free(k) /\ \A m \in 2..(k - 1) : ~free(m)
        IN  /\ tracks[i].file_name = symlinks[i].name
            /\ symlinks[i].name = IF present(original) THEN PrefixedName(n, original)
                                  ELSE original

\* the entries of playlist id whose track exists, in entry_index order
ResolvableEntriesOf(id) ==
    SelectSeq(EntriesOf(id), LAMBDA e : e.track_id \in DOMAIN tracks)

\* C2: a playlist entry whose track_id is not a key of the tracks map is
\* dropped and is never fatal: the run does not end on the failed lookup,
\* every written document lists exactly the playlist's resolvable entries in
\* COLLECTION and PLAYLIST and counts them in both ENTRIES attributes, and a
\* finished run has written a document for every non-folder playlist.
C2_DanglingEntryDropped ==
    /\ error # "KeyError: tracks"
    /\ \A k \in DOMAIN written :
          LET n == Len(ResolvableEntriesOf(written[k].playlist))
          IN  /\ Len(written[k].nml.COLLECTION) = n
              /\ Len(written[k].nml.PLAYLIST) = n
              /\ written[k].nml.COLLECTION_ENTRIES = n
              /\ written[k].nml.PLAYLIST_ENTRIES = n
    /\ pc = "done" =>
          \A id \in NonFolders(playlists) :
              \E k \in DOMAIN written : written[k].playlist = id

\* C3: a track whose beat grid has no beat with num == 1 (an empty grid
\* included) does not make the run fail: the run never ends on the exhausted
\* search for the grid start, and the ENTRY written for such a track carries
\* no AutoGrid CUE_V2.
C3_MissingAutoGridOmitted ==
    /\ error # "StopIteration"
    /\ \A k \in DOMAIN written : \A i \in DOMAIN written[k].entries :
          LET track == tracks[written[k].entries[i].track_id]
              cues == written[k].nml.COLLECTION[i].CUE_V2
          IN  ~HasGridStart(track) =>
                  \A c \in DOMAIN cues : cues[c].NAME # "AutoGrid"

\* C10: a document is written only after every track has its symlink, and in
\* every written document the LOCATION FILE of an entry is the name of the
\* symlink created for the entry's track (target "../" + file_path), the
\* PRIMARYKEY KEY at the same position is "{usb_volume}/:TRAKTOR/:" + that
\* name, and a renamed track does not appear under its original name.
C10_FinalNameInXml ==
    \A k \in DOMAIN written :
        /\ Len(symlinks) = Len(tracks)
        /\ Len(written[k].nml.PLAYLIST) = Len(written[k].nml.COLLECTION)
        /\ \A i \in DOMAIN written[k].nml.COLLECTION :
              LET t == written[k].entries[i].track_id
                  link == symlinks[t]
              IN  /\ link.target = <<".", ".", "/">> \o orig_tracks[t].file_path
                  /\ written[k].nml.COLLECTION[i].FILE = link.name
                  /\ written[k].nml.PLAYLIST[i] =
                        usb_volume
                        \o <<"/", ":", "T", "R", "A", "K", "T", "O", "R", "/", ":">>
                        \o link.name
                  /\ link.name # orig_tracks[t].file_name =>
                        written[k].nml.COLLECTION[i].FILE # orig_tracks[t].file_name

\* C10 witness: a written document has an entry for a track that was renamed
C10_Witness ==
    \E k \in DOMAIN written : \E i \in DOMAIN written[k].entries :
        LET t == written[k].entries[i].track_id
        IN  /\ symlinks[t].name # orig_tracks[t].file_name
            /\ written[k].nml.COLLECTION[i].FILE = symlinks[t].name

-----------------------------------------------------------------------------
(* Claims about the playlist files *)

\* the paths tree.write was called with
NmlPaths == {written[k].path : k \in DOMAIN written}

\* C4: after a successful export the number of distinct .nml files written
\* equals the number of non-folder playlists: no two non-folder playlists are
\* written to the same path.
C4_OneNmlPerPlaylist ==
    pc = "done" => Cardinality(NmlPaths) = Cardinality(NonFolders(playlists))

RECURSIVE AncestorsWithin(_, _)
\* the ancestors of playlist id, root-most first, following at most fuel links
AncestorsWithin(id, fuel) ==
    LET parent == playlists[id].parent_id
    IN  IF parent = 0 \/ parent \notin DOMAIN playlists \/ fuel = 0 THEN <<>>
        ELSE Append(AncestorsWithin(parent, fuel - 1), parent)

Ancestors(id) == AncestorsWithin(id, Len(playlists))

\* the parent_id chain of playlist id reaches 0 through folders only
ReachesRootThroughFolders(id) ==
    LET chain == Ancestors(id)
    IN  /\ Len(chain) < Len(playlists)
        /\ \A i \in DOMAIN chain : playlists[chain[i]].raw_is_folder # 0
        /\ (IF chain = <<>> THEN playlists[id].parent_id
            ELSE playlists[chain[1]].parent_id) = 0

RECURSIVE JoinUnderscore(_)
\* "_".join(names) of a non-empty list of names
JoinUnderscore(names) ==
    IF Len(names) = 1 THEN names[1]
    ELSE names[1] \o <<"_">> \o JoinUnderscore(Tail(names))

\* the file name the spec gives playlist id: the ancestor folder names from
\* the root-most down, then the playlist name, joined by '_', '/' replaced
ExpectedFileName(id) ==
    LET names == [i \in DOMAIN Ancestors(id) |-> playlists[Ancestors(id)[i]].name]
        joined == JoinUnderscore(Append(names, playlists[id].name))
    IN  [i \in DOMAIN joined |-> IF joined[i] = "/" THEN "_" ELSE joined[i]]
        \o <<".", "n", "m", "l">>

\* C9: every document is written for a non-folder playlist whose parent chain
\* reaches 0 through folders only, under the file name made of its ancestor
\* folders' names from the root-most down to its parent, then its own name,
\* joined by '_', with every '/' replaced by '_', plus ".nml".
C9_NmlFileName ==
    \A k \in DOMAIN written :
        /\ playlists[written[k].playlist].raw_is_folder = 0
        /\ ReachesRootThroughFolders(written[k].playlist)
        /\ written[k].path = ExpectedFileName(written[k].playlist)

\* C9 witness: a document was written for a playlist two folders deep whose
\* file name has a '/' replaced
C9_Witness ==
    \E k \in DOMAIN written :
        LET id == written[k].playlist
            chain == Ancestors(id)
        IN  /\ Len(chain) = 2
            /\ playlists[chain[1]].name # playlists[chain[2]].name
            /\ \E c \in DOMAIN chain : \E i \in DOMAIN playlists[chain[c]].name :
                  playlists[chain[c]].name[i] = "/"
            /\ written[k].path = ExpectedFileName(id)

-----------------------------------------------------------------------------
(* Claims about the cues of an ENTRY *)

\* how often x occurs in the sequence s
CountIn(s, x) == Cardinality({i \in DOMAIN s : s[i] = x})

\* the CUE_V2 elements of an ENTRY other than AutoGrid
OtherCues(entry) == SelectSeq(entry.CUE_V2, LAMBDA c : c.NAME # "AutoGrid")

\* START and TYPE of the CUE_V2 a memory cue is written as
MemoryCueShape(cp) == [START |-> cp.time_in_ms, TYPE |-> IF cp.is_loop THEN "5" ELSE "0"]

\* the memory cues of a track, in file order, as START and TYPE
MemoryShapes(track) ==
    LET mem == SelectSeq(track.analysis.cue_points, LAMBDA cp : cp.cue_type = "MEMORY")
    IN  [i \in DOMAIN mem |-> MemoryCueShape(mem[i])]

\* C8 for one ENTRY and its track
MemoryCuesOk(entry, track) ==
    LET cues == OtherCues(entry)
        shapes == [i \in DOMAIN cues |-> [START |-> cues[i].START, TYPE |-> cues[i].TYPE]]
        mem == MemoryShapes(track)
    IN  /\ Len(cues) <= 8
        /\ Len(cues) = IF Len(mem) > 8 THEN 8 ELSE Len(mem)
        /\ \A i \in DOMAIN cues : cues[i].HOTCUE = i - 1
        /\ \A i \in 1..(Len(cues) - 1) : cues[i].START <= cues[i + 1].START
        \* each element is a memory cue of the track, none taken twice
        /\ \A i \in DOMAIN shapes : CountIn(shapes, shapes[i]) <= CountIn(mem, shapes[i])
        \* a memory cue left out is not earlier than any cue written
        /\ \A i \in DOMAIN mem :
              CountIn(shapes, mem[i]) < CountIn(mem, mem[i]) =>
                  \A j \in DOMAIN cues : cues[j].START <= mem[i].START

\* C8: in every written ENTRY the CUE_V2 elements other than AutoGrid are
\* memory cues of the track only (never hot cues), at most 8, with HOTCUE
\* 0, 1, ..., k-1 in document order and non-decreasing START; of more than 8
\* memory cues the 8 with the smallest time_in_ms are written.
C8_MemoryCues ==
    \A k \in DOMAIN written : \A i \in DOMAIN written[k].entries :
        MemoryCuesOk(written[k].nml.COLLECTION[i],
                     tracks[written[k].entries[i].track_id])

\* C8 witness: an ENTRY was written with 8 memory cues for a track that has
\* more than 8 memory cues, a later one before an earlier one in the file
C8_Witness ==
    \E k \in DOMAIN written : \E i \in DOMAIN written[k].entries :
        LET track == tracks[written[k].entries[i].track_id]
            cps == track.analysis.cue_points
        IN  /\ Len(MemoryShapes(track)) > 8
            /\ \E c \in 1..(Len(cps) - 1) : cps[c].time_in_ms > cps[c + 1].time_in_ms
            /\ Len(OtherCues(written[k].nml.COLLECTION[i])) = 8

-----------------------------------------------------------------------------
(* parse_export_pdb: the table pointers, the page walk, the rows *)

\* TableType (parse_export_pdb.py, 29-50), by value
GENRES == 1

ARTISTS == 2

ALBUMS == 3

LABELS == 4

KEYS == 5

COLORS == 6

HISTORY_PLAYLISTS == 11

ARTWORK == 13

UNKNOWN == 20

\* the values TableType(value) accepts: every member of the enum
TableTypeValues == 0..UNKNOWN

\* line 476: TableType(table_type) if table_type < TableType.UNKNOWN.value
\* else TableType.UNKNOWN
ToTableType(raw) == IF raw < UNKNOWN THEN raw ELSE UNKNOWN

\* TablePointer (358-362)
TablePointer(type, first, last) ==
    [table_type |-> type, first_page |-> first, last_page |-> last]

\* the map of ExportDB a page type's rows are stored in (lines 513-546)
MapOfType ==
    (ARTISTS :> "artists") @@ (ALBUMS :> "albums") @@ (ARTWORK :> "artwork")
    @@ (COLORS :> "colors") @@ (GENRES :> "genres") @@ (KEYS :> "keys")
    @@ (LABELS :> "labels")

MapNames == {MapOfType[t] : t \in DOMAIN MapOfType}

\* ExportDB.__init__ (379-386): every map holds the empty name at key 0
NewExportDB == [mp \in MapNames |-> (0 :> <<>>)]

\* lines 516, 521, ...: export_db.<map>[row.id] = row, also when the id is 0
StoreRow(db, mp, row) ==
    [db EXCEPT ![mp] = [id \in DOMAIN db[mp] \cup {row.id} |->
                            IF id = row.id THEN row.name ELSE db[mp][id]]]

RECURSIVE StoreRows(_, _, _)
\* lines 498-561: the present rows of one page, in slot order
StoreRows(db, page_type, rows) ==
    IF rows = <<>> \/ page_type \notin DOMAIN MapOfType THEN db
    ELSE StoreRows(StoreRow(db, MapOfType[page_type], Head(rows)), page_type, Tail(rows))

\* the page of index idx lies within the file (line 485 slices data)
InFile(idx) == idx \in DOMAIN pdb_pages

\* lines 490-494: the exception the page raises, "none" if it passes.  The
\* message of the third assert is built with TableType(page_type), which
\* raises ValueError for a value outside the enum.
PageFailure(idx, table_type) ==
    IF idx = 0 THEN "AssertionError"       \* the header is read as a page
    ELSE IF ~InFile(idx) THEN "struct.error"
    ELSE IF pdb_pages[idx].zeros # 0 THEN "AssertionError"
    ELSE IF pdb_pages[idx].redundant_page_idx # idx THEN "AssertionError"
    ELSE IF pdb_pages[idx].page_type = table_type THEN "none"
    ELSE IF pdb_pages[idx].page_type \in TableTypeValues THEN "AssertionError"
    ELSE "ValueError"

\* the position after table t's pages are done (line 481)
AfterTable(t) == IF t >= Len(table_pointers) THEN "done" ELSE "pages"

\* line 482 for the table after t
FirstPageAfter(t) ==
    IF t >= Len(table_pointers) THEN 0 ELSE table_pointers[t + 1].first_page

\* lines 471-477: one table pointer
ReadTablePointer ==
    /\ p_pc = "pointers"
    /\ LET raw == pdb_tables[table_num]
           all == Append(table_pointers,
                         TablePointer(ToTableType(raw.table_type), raw.first_page,
                                      raw.last_page))
       IN  /\ table_pointers' = all
           /\ IF table_num < Len(pdb_tables)
              THEN /\ table_num' = table_num + 1
                   /\ UNCHANGED <<p_pc, page_idx>>
              ELSE /\ table_num' = 1
                   /\ p_pc' = "pages"
                   /\ page_idx' = all[1].first_page
    /\ UNCHANGED <<pdb_tables, pdb_pages, export_db, p_error>>
    /\ UNCHANGED <<export_vars, row_vars, anlz_vars>>

\* lines 484-494: the page's header is read and passes the asserts
CheckPage ==
    /\ p_pc = "pages"
    /\ PageFailure(page_idx, table_pointers[table_num].table_type) = "none"
    /\ p_pc' = "rows"
    /\ UNCHANGED <<pdb_tables, pdb_pages, table_pointers, export_db, table_num,
                   page_idx, p_error>>
    /\ UNCHANGED <<export_vars, row_vars, anlz_vars>>

\* lines 496-561, 564, 567: the rows of a page that is not the table's last one
ReadPage ==
    /\ p_pc = "rows"
    /\ page_idx # table_pointers[table_num].last_page
    /\ export_db' = StoreRows(export_db, pdb_pages[page_idx].page_type,
                              pdb_pages[page_idx].rows)
    /\ page_idx' = pdb_pages[page_idx].next_page
    /\ p_pc' = "pages"
    /\ UNCHANGED <<pdb_tables, pdb_pages, table_pointers, table_num, p_error>>
    /\ UNCHANGED <<export_vars, row_vars, anlz_vars>>

\* lines 496-561, 564-565, then 481-482: the rows of the table's last page
ReadLastPage ==
    /\ p_pc = "rows"
    /\ page_idx = table_pointers[table_num].last_page
    /\ export_db' = StoreRows(export_db, pdb_pages[page_idx].page_type,
                              pdb_pages[page_idx].rows)
    /\ p_pc' = AfterTable(table_num)
    /\ page_idx' = FirstPageAfter(table_num)
    /\ table_num' = table_num + 1
    /\ UNCHANGED <<pdb_tables, pdb_pages, table_pointers, p_error>>
    /\ UNCHANGED <<export_vars, row_vars, anlz_vars>>

\* lines 486-494: the page is outside the file or fails an assert
PageFails ==
    /\ p_pc = "pages"
    /\ PageFailure(page_idx, table_pointers[table_num].table_type) # "none"
    /\ p_pc' = "failed"
    /\ p_error' = PageFailure(page_idx, table_pointers[table_num].table_type)
    /\ UNCHANGED <<pdb_tables, pdb_pages, table_pointers, export_db, table_num,
                   page_idx>>
    /\ UNCHANGED <<export_vars, row_vars, anlz_vars>>

NextParse ==
    \/ ReadTablePointer
    \/ CheckPage
    \/ ReadPage
    \/ ReadLastPage
    \/ PageFails

-----------------------------------------------------------------------------
(* the PDB files the parser is run on *)

\* one table page: the header fields the walk reads and the present rows
Page(zeros, idx, type, next, rows) ==
    [zeros |-> zeros, redundant_page_idx |-> idx, page_type |-> type,
     next_page |-> next, rows |-> rows]

\* a row of an id-and-name table (Artist, Album, Artwork, Color, Genre, Key, Label)
Row(id, name) == [id |-> id, name |-> name]

\* export_to_traktor is not running while the file is parsed
ExportNotModelled ==
    /\ usb_volume = <<>>
    /\ tracks = <<>>
    /\ orig_tracks = <<>>
    /\ playlists = <<>>
    /\ playlist_entries = <<>>
    /\ symlinks = <<>>
    /\ written = <<>>
    /\ pc = "done"
    /\ track_idx = 1
    /\ unique_counter = FirstUniqueCounter
    /\ pl_idx = 1
    /\ parent_folders = <<>>
    /\ parent_id = 0
    /\ walk_steps = 0
    /\ error = "none"

\* lines 458-469: the state after the header is read
InitParseOf(tables, pages) ==
    /\ pdb_tables = tables
    /\ pdb_pages = pages
    /\ table_pointers = <<>>
    /\ export_db = NewExportDB
    /\ p_pc = "pointers"
    /\ table_num = 1
    /\ page_idx = 0
    /\ p_error = "none"
    /\ ExportNotModelled
    /\ RowNotModelled
    /\ AnlzNotModelled

\* the row that marks page i as processed
PageMark(i) == <<Row(i, <<"p">>)>>

\* an artists table over MaxPages pages whose next_page links are arbitrary,
\* alone or followed by a one-page table
InitWalk ==
    \E first \in 0..(MaxPages + 1), last \in 1..MaxPages, second \in BOOLEAN :
      \E next \in [1..MaxPages -> 0..(MaxPages + 1)] :
        InitParseOf(<<TablePointer(ARTISTS, first, last)>>
                      \o (IF second THEN <<TablePointer(ARTISTS, 1, 1)>> ELSE <<>>),
                    [i \in 1..MaxPages |-> Page(0, i, ARTISTS, next[i], PageMark(i))])

\* raw table types: two known ones, the value of UNKNOWN, one beyond the enum
RawTypes == {ARTISTS, HISTORY_PLAYLISTS, UNKNOWN, 32}

\* up to MaxTables tables of any raw type, table t made of page t alone, whose
\* page type is any raw type
InitTypes ==
    \E n \in 1..MaxTables :
      \E types \in [1..n -> RawTypes], ptypes \in [1..n -> RawTypes] :
        InitParseOf([t \in 1..n |-> TablePointer(types[t], t, t)],
                    [t \in 1..n |-> Page(0, t, ptypes[t], 0, PageMark(t))])

RowValues == {Row(id, name) : id \in 0..1, name \in {<<>>, <<"x">>}}

\* one table of an id-and-name type, one page, up to MaxRows rows
InitRows ==
    \E type \in DOMAIN MapOfType :
      \E rows \in SeqsUpTo(RowValues, MaxRows) :
        InitParseOf(<<TablePointer(type, 1, 1)>>, <<Page(0, 1, type, 0, rows)>>)

\* one page whose zero field or redundant index may be wrong
InitBadPage ==
    \E zeros \in 0..1, idx \in 1..2 :
        InitParseOf(<<TablePointer(ARTISTS, 1, 1)>>,
                    <<Page(zeros, idx, ARTISTS, 0, <<>>)>>)

InitParse == InitWalk \/ InitTypes \/ InitRows \/ InitBadPage

SpecParse == InitParse /\ [][NextParse]_vars

\* the parser is one sequential loop: its next step is always taken
SpecWalk == InitWalk /\ [][NextParse]_vars /\ WF_vars(NextParse)

-----------------------------------------------------------------------------
(* the parser's claims *)

\* every table's chain is its own page alone, and that page is sound: it lies
\* in the file, its zero field is 0, its index is right, and it carries the
\* raw type of its table
OneSoundPagePerTable ==
    \A t \in DOMAIN pdb_tables :
        /\ pdb_tables[t].first_page = t
        /\ pdb_tables[t].last_page = t
        /\ InFile(t)
        /\ pdb_pages[t].zeros = 0
        /\ pdb_pages[t].redundant_page_idx = t
        /\ pdb_pages[t].page_type = pdb_tables[t].table_type

\* C5: in a file of sound tables, a table pointer whose type is not a known
\* one is decoded as UNKNOWN, the parse raises no error, and when it is over
\* the rows of every artists table are in the artists map.
C5_UnknownTablesSkipped ==
    OneSoundPagePerTable =>
        /\ \A t \in DOMAIN table_pointers :
               pdb_tables[t].table_type >= UNKNOWN
                   => table_pointers[t].table_type = UNKNOWN
        /\ p_pc # "failed"
        /\ p_pc = "done" =>
               \A t \in DOMAIN pdb_tables :
                   pdb_tables[t].table_type = ARTISTS
                       => \A r \in DOMAIN pdb_pages[t].rows :
                              pdb_pages[t].rows[r].id \in DOMAIN export_db.artists

\* C6: once the pages are parsed, each of the seven id-and-name maps holds
\* key 0 and the name stored there is the empty string.
C6_SentinelsSurvive ==
    p_pc = "done" =>
        \A mp \in MapNames :
            /\ 0 \in DOMAIN export_db[mp]
            /\ export_db[mp][0] = <<>>

\* C7: the walk starts each table at its first_page, goes from a page that is
\* not the last one to the page its next_page names, leaves the table right
\* after the page whose index is last_page, and the walk of the tables ends.
C7_PageTraversal ==
    /\ [][/\ (p_pc = "pointers" /\ p_pc' = "pages")
                 => page_idx' = pdb_tables[1].first_page
          /\ p_pc = "rows"
                 => IF page_idx = pdb_tables[table_num].last_page
                    THEN /\ table_num' = table_num + 1
                         /\ page_idx' = FirstPageAfter(table_num)
                    ELSE /\ table_num' = table_num
                         /\ page_idx' = pdb_pages[page_idx].next_page]_vars
    /\ <>(p_pc \in {"done", "failed"})

-----------------------------------------------------------------------------
(* the entries of a playlist *)

\* two tracks under names of their own, so that a FILE names one track
TwoTracks == TracksOf(2, <<<<"k">>, <<"2", "-", "k">>>>, 0, <<>>)

TwoPlaylists == <<Playlist(0, 0, <<"A">>), Playlist(0, 0, <<"B">>)>>

\* the decoded entry rows: any index, either track, either playlist
EntryRows ==
    {PlaylistEntry(index, track, playlist) :
        index \in 1..3, track \in DOMAIN TwoTracks, playlist \in DOMAIN TwoPlaylists}

\* Up to MaxEntries entries in any list order, spread over two playlists
InitEntryRows ==
    \E entries \in SeqsUpTo(EntryRows, MaxEntries) :
        InitExport(Library(TwoTracks, TwoPlaylists, entries))

InitEntries == InitEntryRows \/ InitCore

SpecEntries == InitEntries /\ [][Next]_vars

\* how often x stands in the sequence s
Occurrences(s, x) == Cardinality({i \in DOMAIN s : s[i] = x})

\* C11: in every written document the COLLECTION entries and the PLAYLIST
\* entries both list exactly the entries of playlist_entries whose playlist_id
\* is the document's playlist, each as often as it is in the list, in
\* ascending entry_index order; the i-th of both is the i-th entry's track;
\* both ENTRIES attributes are the number of those entries.
C11_EntryOrdering ==
    \A k \in DOMAIN written :
        LET w == written[k]
            es == w.entries
            n == Cardinality({j \in DOMAIN playlist_entries :
                                 playlist_entries[j].playlist_id = w.playlist})
        IN  /\ Len(es) = n
            /\ \A i \in DOMAIN es :
                  /\ es[i].playlist_id = w.playlist
                  /\ Occurrences(es, es[i]) = Occurrences(playlist_entries, es[i])
            /\ \A i, j \in DOMAIN es : i < j => es[i].entry_index <= es[j].entry_index
            /\ w.nml.COLLECTION_ENTRIES = n
            /\ w.nml.PLAYLIST_ENTRIES = n
            /\ Len(w.nml.COLLECTION) = n
            /\ Len(w.nml.PLAYLIST) = n
            /\ \A i \in DOMAIN es :
                  /\ w.nml.COLLECTION[i].FILE = tracks[es[i].track_id].file_name
                  /\ w.nml.PLAYLIST[i] =
                        PrimaryKey(usb_volume, tracks[es[i].track_id].file_name)

\* C11 witness: a written document lists two entries of different tracks that
\* stand in playlist_entries in descending entry_index order
C11_Witness ==
    \E k \in DOMAIN written :
        /\ Len(written[k].nml.COLLECTION) >= 2
        /\ \E i, j \in DOMAIN playlist_entries :
              /\ i < j
              /\ playlist_entries[i].playlist_id = written[k].playlist
              /\ playlist_entries[j].playlist_id = written[k].playlist
              /\ playlist_entries[i].entry_index > playlist_entries[j].entry_index
              /\ playlist_entries[i].track_id # playlist_entries[j].track_id

-----------------------------------------------------------------------------
(* string_from_bytes and the strings of a track row.  Bytes are numbers      *)
(* 0..255, a decoded string is the sequence of its code points, and offsets  *)
(* count from 0 as in the code.                                              *)

\* line 285: struct.unpack('H' * 21, ...)
NumStringOffsets == 21

\* data[a:b] of Python for 0 <= a: the end is clamped, an empty range is empty
Slice(data, a, b) ==
    SubSeq(data, a + 1, IF b < Len(data) THEN b ELSE Len(data))

\* meta & (1 << k), as 0 or 1
Bit(meta, k) == (meta \div (2 ^ k)) % 2

\* str(bytes, codec).  ascii takes bytes below 0x80 only.  For utf-8 the same
\* holds of the bytes the rows here are made of (none is a lead byte).  utf-16
\* without a byte order mark reads little-endian code units; an odd number of
\* bytes is truncated data.
Decoded(bytes, codec) ==
    IF codec = "utf-16"
    THEN IF Len(bytes) % 2 = 1 THEN [error |-> "UnicodeDecodeError", str |-> <<>>]
         ELSE [error |-> "none",
               str |-> [k \in 1..(Len(bytes) \div 2) |->
                           bytes[2 * k - 1] + 256 * bytes[2 * k]]]
    ELSE IF \E k \in DOMAIN bytes : bytes[k] >= 128
         THEN [error |-> "UnicodeDecodeError", str |-> <<>>]
         ELSE [error |-> "none", str |-> bytes]

\* lines 12-26
string_from_bytes(data, offset) ==
    IF offset >= Len(data) THEN [error |-> "struct.error", str |-> <<>>]
    ELSE LET meta == data[offset + 1]
         IN  IF Bit(meta, 0) = 1
             THEN Decoded(Slice(data, offset + 1, offset + (meta \div 2)), "ascii")
             ELSE IF offset + 3 > Len(data)
                  THEN [error |-> "struct.error", str |-> <<>>]
                  ELSE LET str_len == data[offset + 2] + 256 * data[offset + 3]
                       IN  Decoded(Slice(data, offset + 4, offset + str_len),
                                   IF Bit(meta, 4) = 1 THEN "utf-16"
                                   ELSE IF Bit(meta, 5) = 1 THEN "utf-8" ELSE "ascii")

\* lines 300-317: the attribute slot i is stored in
StringSlots ==
    (10 :> "date_added") @@ (11 :> "release_date") @@ (12 :> "mix_name")
    @@ (14 :> "analyze_path") @@ (15 :> "analyze_date") @@ (16 :> "comment")
    @@ (17 :> "title") @@ (19 :> "file_name") @@ (20 :> "file_path")

StringAttributes == {StringSlots[i] : i \in DOMAIN StringSlots}

\* lines 265-273: the defaults of the Track dataclass
NewTrackStrings == [a \in StringAttributes |-> <<>>]

\* string_offsets[i] of the code (the tuple counts from 0)
OffsetOfSlot(i) == string_offsets[i + 1]

\* line 299 for slot i; row_offset is 0
SlotString(i) == string_from_bytes(page_data, 0 + OffsetOfSlot(i))

\* lines 298-317: one iteration of the loop over string_offsets[1:]
DecodeString ==
    /\ t_pc = "strings"
    /\ SlotString(str_idx).error = "none"
    /\ track_strings' =
          IF str_idx \in DOMAIN StringSlots
          THEN [track_strings EXCEPT ![StringSlots[str_idx]] = SlotString(str_idx).str]
          ELSE track_strings
    /\ IF str_idx < NumStringOffsets - 1
       THEN /\ str_idx' = str_idx + 1
            /\ t_pc' = "strings"
       ELSE /\ str_idx' = str_idx
            /\ t_pc' = "done"
    /\ UNCHANGED <<page_data, string_offsets, t_error>>
    /\ UNCHANGED <<export_vars, parse_vars, anlz_vars>>

\* line 299: string_from_bytes raises
DecodeStringFails ==
    /\ t_pc = "strings"
    /\ SlotString(str_idx).error # "none"
    /\ t_pc' = "failed"
    /\ t_error' = SlotString(str_idx).error
    /\ UNCHANGED <<page_data, string_offsets, str_idx, track_strings>>
    /\ UNCHANGED <<export_vars, parse_vars, anlz_vars>>

NextTrackRow ==
    \/ DecodeString
    \/ DecodeStringFails

\* the bytes a row may start with: as meta byte, 0 is a long ascii string, 5
\* and 65 short ones of length 2 and 32, 16 a long utf-16 one, 32 a long
\* utf-8 one, 128 a long ascii one that is itself no ascii byte
RowBytes == {0, 5, 16, 32, 65, 128}

\* the strings behind the row's start: "A" (short), then "" (short)
StringArea == <<5, 65, 3>>

\* lines 283-296: the state when the loop of line 298 starts.  The row starts
\* with MaxRowBytes arbitrary bytes; slot zero (if any) has offset 0, every
\* other slot the offset of one of the two strings behind them.
InitTrackRow ==
    \E start \in [1..MaxRowBytes -> RowBytes], zero \in {0, 1} \cup DOMAIN StringSlots :
        /\ page_data = start \o StringArea
        /\ string_offsets = [k \in 1..NumStringOffsets |->
                                IF k = 1 \/ k - 1 = zero THEN 0
                                ELSE IF k % 2 = 0 THEN MaxRowBytes ELSE MaxRowBytes + 2]
        /\ str_idx = 1
        /\ track_strings = NewTrackStrings
        /\ t_pc = "strings"
        /\ t_error = "none"
        /\ ExportNotModelled
        /\ ParseNotModelled
        /\ AnlzNotModelled

SpecTrackRow == InitTrackRow /\ [][NextTrackRow]_vars

\* C12: a string attribute whose slot has offset 0 is the empty string once
\* its slot is decoded, whatever the row starts with, and decoding such a
\* slot raises nothing.
C12_ZeroOffsetIsEmpty ==
    /\ \A i \in DOMAIN StringSlots :
          ((i < str_idx \/ t_pc = "done") /\ OffsetOfSlot(i) = 0)
              => track_strings[StringSlots[i]] = <<>>
    /\ (t_pc = "failed" /\ str_idx \in DOMAIN StringSlots)
          => OffsetOfSlot(str_idx) # 0

-----------------------------------------------------------------------------
(* the symlink loop on colliding names *)

\* file names that collide with each other and with the names a rename makes
CollidingNames == {<<"k">>, <<"2", "-", "k">>, <<"3", "-", "2", "-", "k">>}

\* Up to MaxTracks tracks under colliding names, no entries
InitNames ==
    \E n \in 1..MaxTracks :
      \E names \in [1..n -> CollidingNames] :
        InitExport(Library(TracksOf(n, names, 0, <<>>), GoodTree, <<>>))

InitSymlinks == InitNames \/ InitCore

\* export_to_traktor is one sequential run: its next step is always taken
SpecSymlinks == InitSymlinks /\ [][Next]_vars /\ WF_vars(Next)

\* C13: once the symlink loop is over there is one symlink per track, named
\* by the track's final file_name and pointing to "../" + the file_path the
\* track was decoded with, the final file_names are pairwise distinct, and
\* the loop leaves every track it is at.
C13_SymlinkNamesUnique ==
    /\ [](pc # "symlinks" =>
            /\ Len(symlinks) = Len(tracks)
            /\ \A i \in DOMAIN tracks :
                  /\ symlinks[i].name = tracks[i].file_name
                  /\ tracks[i].file_path = orig_tracks[i].file_path
                  /\ symlinks[i].target = <<".", ".", "/">> \o orig_tracks[i].file_path
            /\ \A i, j \in DOMAIN tracks :
                  i # j => tracks[i].file_name # tracks[j].file_name)
    /\ \A i \in 1..MaxTracks :
          [](pc = "symlinks" /\ track_idx = i
                => <>(pc # "symlinks" \/ track_idx > i))

\* C13 witness: the loop is over for three tracks or more, and one of them
\* was renamed more than once
C13_Witness ==
    /\ pc # "symlinks"
    /\ Len(symlinks) >= 3
    /\ \E i \in DOMAIN tracks :
          /\ tracks[i].file_name # orig_tracks[i].file_name
          /\ tracks[i].file_name # RenamedFileName(2, orig_tracks[i].file_name)

-----------------------------------------------------------------------------
(* parse_anlz_file: the walk over the tagged sections.  The file is given by *)
(* its envelope, its length, and the section header that stands at each      *)
(* offset where 12 bytes can be read.                                        *)

\* line 397
NumBytesAnlzHeader == 12

\* line 403
FirstSectionOffset == 28

\* line 404
NumBytesSectionHeader == 12

\* the header read at an offset, and whether the section's body can be parsed
SectionHeader(code, len_tag, body) ==
    [section_code |-> code, len_tag |-> len_tag, body |-> body]

\* line 407: 12 bytes stand at the offset
Readable(offset) == offset + NumBytesSectionHeader <= anlz_data_len

\* lines 412, 425: the bytes of the beat grid header, of the cue list header
NumBytesBeatGridHeader == 12

NumBytesCueListHeader == 8

\* lines 411-434: the exception the body of the section at the offset raises,
\* "none" if none: the beat grid header or a beat is cut off (lines 412, 416),
\* the cue list header is cut off (line 425) or its zero field is not 0 (line
\* 427); PCOB and unknown sections have no body to parse
BodyFailure(offset) ==
    LET header == anlz_sections[offset]
        tag_header_offset == offset + NumBytesSectionHeader
    IN  IF header.section_code = "PQTZ"
        THEN IF tag_header_offset + NumBytesBeatGridHeader > anlz_data_len
                  \/ header.body = "bad"
             THEN "struct.error" ELSE "none"
        ELSE IF header.section_code = "PCO2"
        THEN IF tag_header_offset + NumBytesCueListHeader > anlz_data_len
             THEN "struct.error"
             ELSE IF header.body = "bad" THEN "AssertionError" ELSE "none"
        ELSE "none"

\* lines 398-403: the envelope is read and its magic is PMAI
ReadEnvelope ==
    /\ a_pc = "envelope"
    /\ anlz_data_len >= NumBytesAnlzHeader
    /\ anlz_code = "PMAI"
    /\ offset_tagged_section' = FirstSectionOffset
    /\ a_pc' = "loop"
    /\ UNCHANGED <<anlz_code, anlz_len_file, anlz_data_len, anlz_sections, a_error>>
    /\ UNCHANGED <<export_vars, parse_vars, row_vars>>

\* lines 398, 401: the file is shorter than the envelope, or the magic is wrong
EnvelopeFails ==
    /\ a_pc = "envelope"
    /\ anlz_data_len < NumBytesAnlzHeader \/ anlz_code # "PMAI"
    /\ a_pc' = "failed"
    /\ a_error' = IF anlz_data_len < NumBytesAnlzHeader THEN "struct.error"
                  ELSE "AssertionError"
    /\ UNCHANGED <<anlz_code, anlz_len_file, anlz_data_len, anlz_sections,
                   offset_tagged_section>>
    /\ UNCHANGED <<export_vars, parse_vars, row_vars>>

\* line 406: the loop condition is false
SectionsEnd ==
    /\ a_pc = "loop"
    /\ offset_tagged_section >= anlz_len_file
    /\ a_pc' = "done"
    /\ UNCHANGED <<anlz_code, anlz_len_file, anlz_data_len, anlz_sections,
                   offset_tagged_section, a_error>>
    /\ UNCHANGED <<export_vars, parse_vars, row_vars>>

\* lines 406-409: the section header is read
ReadSectionHeader ==
    /\ a_pc = "loop"
    /\ offset_tagged_section < anlz_len_file
    /\ Readable(offset_tagged_section)
    /\ a_pc' = "section"
    /\ UNCHANGED <<anlz_code, anlz_len_file, anlz_data_len, anlz_sections,
                   offset_tagged_section, a_error>>
    /\ UNCHANGED <<export_vars, parse_vars, row_vars>>

\* line 407: fewer than 12 bytes stand at the offset
SectionHeaderFails ==
    /\ a_pc = "loop"
    /\ offset_tagged_section < anlz_len_file
    /\ ~Readable(offset_tagged_section)
    /\ a_pc' = "failed"
    /\ a_error' = "struct.error"
    /\ UNCHANGED <<anlz_code, anlz_len_file, anlz_data_len, anlz_sections,
                   offset_tagged_section>>
    /\ UNCHANGED <<export_vars, parse_vars, row_vars>>

\* lines 411-436: the body is parsed and the offset moves on by len_tag
NextSection ==
    /\ a_pc = "section"
    /\ BodyFailure(offset_tagged_section) = "none"
    /\ offset_tagged_section' =
          offset_tagged_section + anlz_sections[offset_tagged_section].len_tag
    /\ a_pc' = "loop"
    /\ UNCHANGED <<anlz_code, anlz_len_file, anlz_data_len, anlz_sections, a_error>>
    /\ UNCHANGED <<export_vars, parse_vars, row_vars>>

\* lines 412-416, 425-427: the body raises
SectionBodyFails ==
    /\ a_pc = "section"
    /\ BodyFailure(offset_tagged_section) # "none"
    /\ a_pc' = "failed"
    /\ a_error' = BodyFailure(offset_tagged_section)
    /\ UNCHANGED <<anlz_code, anlz_len_file, anlz_data_len, anlz_sections,
                   offset_tagged_section>>
    /\ UNCHANGED <<export_vars, parse_vars, row_vars>>

NextAnlz ==
    \/ ReadEnvelope
    \/ EnvelopeFails
    \/ SectionsEnd
    \/ ReadSectionHeader
    \/ SectionHeaderFails
    \/ NextSection
    \/ SectionBodyFails

\* the offsets of up to n section headers put one behind the other
SectionOffsets(n) ==
    {FirstSectionOffset + NumBytesSectionHeader * k : k \in 0..(n - 1)}

\* len_tag: nothing, the header alone, the header and 12 bytes more
LenTags == {0, NumBytesSectionHeader, 2 * NumBytesSectionHeader}

\* PCOB and unknown sections of every len_tag; beat grids and cue lists that
\* hold no beat and no cue, with a len_tag that is 0 or spans their header,
\* and a broken one of each
SectionHeaders ==
    {SectionHeader(code, len_tag, "ok") : code \in {"PCOB", "XXXX"}, len_tag \in LenTags}
    \cup {SectionHeader(code, len_tag, "ok") :
             code \in {"PQTZ", "PCO2"}, len_tag \in {0, 2 * NumBytesSectionHeader}}
    \cup {SectionHeader("PQTZ", 2 * NumBytesSectionHeader, "bad"),
          SectionHeader("PCO2", 2 * NumBytesSectionHeader, "bad")}

\* An empty file, or one of 28 bytes and up to MaxSections section headers,
\* with any magic, any len_file and any header at each offset
InitAnlz ==
    \E code \in {"PMAI", "XXXX"}, n \in (-1)..MaxSections :
      \E len_file \in {0} \cup SectionOffsets(MaxSections + 2) :
        \E sections \in [SectionOffsets(n) -> SectionHeaders] :
          /\ anlz_code = code
          /\ anlz_len_file = len_file
          /\ anlz_data_len = IF n < 0 THEN 0
                             ELSE FirstSectionOffset + NumBytesSectionHeader * n
          /\ anlz_sections = sections
          /\ offset_tagged_section = 0
          /\ a_pc = "envelope"
          /\ a_error = "none"
          /\ ExportNotModelled
          /\ ParseNotModelled
          /\ RowNotModelled

\* parse_anlz_file is one sequential loop: its next step is always taken
SpecAnlz == InitAnlz /\ [][NextAnlz]_vars /\ WF_vars(NextAnlz)

\* C14: the walk of a PMAI file starts at offset 28, goes from a section to
\* section_start + len_tag, which is a later offset, is over only at an
\* offset >= len_file, and ends.
C14_SectionWalkTerminates ==
    /\ [][/\ (a_pc = "envelope" /\ a_pc' = "loop")
                 => offset_tagged_section' = FirstSectionOffset
          /\ (a_pc = "section" /\ a_pc' = "loop")
                 => /\ offset_tagged_section' =
                          offset_tagged_section
                          + anlz_sections[offset_tagged_section].len_tag
                    /\ offset_tagged_section' > offset_tagged_section]_vars
    /\ [](a_pc = "done" => offset_tagged_section >= anlz_len_file)
    /\ (anlz_code = "PMAI" => <>(a_pc \in {"done", "failed"}))

-----------------------------------------------------------------------------
(* the ancestor walk on any parent relation *)

\* the folders of the playlist table
Folders == {i \in DOMAIN playlists : playlists[i].raw_is_folder # 0}

\* C15: the ancestor walk of a playlist ends.  Each step of the walk goes to
\* the folder the current parent_id names, so a walk that ends takes every
\* folder at most once: it never takes more steps than the table has folders.
C15_AncestorWalkEnds ==
    pc = "walk" => walk_steps <= Cardinality(Folders)

=============================================================================
